---------------------------- MODULE Spec2Model ----------------------------
(***************************************************************************)
(* Model of the indexing and segmentation core of video_dataset:           *)
(*   - VideoDataset.__len__, __getitem__ and the translation of a global   *)
(*     ("virtual") index into (video index, starting frame)                *)
(*     (src/video_dataset/dataset.py),                                     *)
(*   - slice access of the video and annotation handles                    *)
(*     (src/video_dataset/video.py, src/video_dataset/annotations.py),     *)
(*   - ValuePadder and LastValuePadder (src/video_dataset/padder.py).      *)
(*                                                                         *)
(* A frame of a video is identified by <<video, index>>; a real annotation *)
(* by <<"line", video, index>>; the fallback annotation is one fixed       *)
(* value.  Python's None is an absent Optional (see None / Some).          *)
(***************************************************************************)
EXTENDS Integers, Sequences, FiniteSets, TLC

\* ------------------------------------------------------------------ bounds
MaxVideos == 2
MaxFrames == 4
MaxSegmentSize == 3
MaxStep == 1
MaxShortfall == 1
MaxOverflow == 1
MaxPadLen == 3
MaxTarget == 3
MaxStride == 2
MaxRows == 2
MaxTicks == 4

\* --------------------------------------------------------------- variables
VARIABLES
    videos,              \* self.videos: videos[i] is len() of the i-th handle
    annotations,         \* self.annotations: annotations[i] is the real length
    segment_size,        \* self.segment_size
    step,                \* self.step (NoStep is None)
    video_shape,         \* self.video_shape, a permutation of the four axes
    max_overflow_value,  \* the annotation handles' max_overflow_value
    call,                \* the last call on the dataset and its outcome
    padcall,             \* the last call on a padder and its outcome
    ctor,                \* the construction of the dataset: arguments, progress
    acc,                 \* the last access to an annotation handle
    run,                 \* a dataset[g] in progress, step by step
    csv                  \* a segment-level CSV file and the handle loaded from it

vars == <<videos, annotations, segment_size, step, video_shape,
          max_overflow_value, call, padcall, ctor, acc, run, csv>>

\* What the calls on a constructed dataset and on a padder leave alone.
other_vars == <<ctor, acc, run, csv>>

dataset_vars == <<videos, annotations, segment_size, step, video_shape,
                  max_overflow_value>>

\* ----------------------------------------------------------------- helpers
Min(a, b) == IF a < b THEN a ELSE b

Max(a, b) == IF a > b THEN a ELSE b

\* Python's floor division for a positive divisor.
FloorDiv(a, b) == a \div b

RECURSIVE SumSeq(_)
SumSeq(s) == IF s = <<>> THEN 0 ELSE Head(s) + SumSeq(Tail(s))

\* [x] * n of Python: n copies of x, none when n <= 0.
Repeat(x, n) == [i \in 1..Max(n, 0) |-> x]

\* Python's None and a supplied value of an optional argument.
None == [present |-> FALSE, items |-> <<>>]

Some(items) == [present |-> TRUE, items |-> items]

\* self.step: None, an integer, or a value of another type.
NoStep == [kind |-> "None", value |-> 1]

IntStep(k) == [kind |-> "int", value |-> k]

OtherStep == [kind |-> "other", value |-> 1]

\* ---------------------------------------------------- Python slice and range
\* slice.indices(length) of one bound of slice(start, stop, step) for step > 0.
ClampIndex(i, length) ==
    IF i < 0 THEN Max(i + length, 0) ELSE Min(i, length)

\* The same for step < 0: the bound is clamped to -1..length-1.
ClampIndexDown(i, length) ==
    IF i < 0 THEN Max(i + length, -1) ELSE Min(i, length - 1)

\* list(range(start, stop, step)) for step # 0.
RECURSIVE PyRange(_, _, _)
PyRange(start, stop, stp) ==
    IF (stp > 0 /\ start >= stop) \/ (stp < 0 /\ start <= stop) THEN <<>>
    ELSE <<start>> \o PyRange(start + stp, stop, stp)

\* slice.indices raises for a step of 0 and for a step that is no integer.
StepZero == "ValueError: slice step cannot be zero"

StepType == "TypeError: slice indices must be integers or None"

SliceError(stp) ==
    IF stp.kind = "other" THEN StepType
    ELSE IF stp.kind = "int" /\ stp.value = 0 THEN StepZero
    ELSE "ok"

\* The indices selected by [start:stop:step] on a sequence of the given
\* length, for a step slice.indices accepts.
SliceIndices(start, stop, stp, length) ==
    LET k == IF stp.kind = "None" THEN 1 ELSE stp.value
    IN  IF k > 0
        THEN PyRange(ClampIndex(start, length), ClampIndex(stop, length), k)
        ELSE PyRange(ClampIndexDown(start, length),
                     ClampIndexDown(stop, length), k)

\* --------------------------------------------------------- sequence sources
\* Video.__getitem__(slice): the frames start, start+step, ... below stop,
\* clamped to the video's length.
VideoGetFrames(v, start, stop, stp) ==
    LET idx == SliceIndices(start, stop, stp, videos[v])
    IN  [k \in 1..Len(idx) |-> <<v, idx[k]>>]

FALLBACK_ANNOTATION == <<"nothing", 0, 0>>

\* __get_annotation(index): the real line, the fallback past the real length.
GetAnnotation(v, i) ==
    IF i >= annotations[v] THEN FALLBACK_ANNOTATION ELSE <<"line", v, i>>

\* Annotations.__getitem__(slice): clamped to length + max_overflow_value.
AnnotationsGetSlice(v, start, stop, stp) ==
    LET idx == SliceIndices(start, stop, stp,
                            annotations[v] + max_overflow_value)
    IN  [k \in 1..Len(idx) |-> GetAnnotation(v, idx[k])]

\* ------------------------------------------------------------ segment index
\* Mutant: rounds up, so a trailing partial segment is counted.
VideosCroppedFramesNumber_RoundsUp ==
    [i \in 1..Len(videos) |->
        FloorDiv(videos[i] + segment_size - 1, segment_size)]

\* [len(video) // self.segment_size for video in self.videos]
VideosCroppedFramesNumber ==
    [i \in 1..Len(videos) |-> FloorDiv(videos[i], segment_size)]

\* Mutant: the counts themselves, not their running sums.
Accumulate_NotCumulative(counts) == counts

\* list(itertools.accumulate(counts))
Accumulate(counts) ==
    [i \in 1..Len(counts) |-> SumSeq(SubSeq(counts, 1, i))]

\* bisect.bisect_right(a, x, lo, hi), on 0-based positions lo..hi.
RECURSIVE BisectRightFrom(_, _, _, _)
BisectRightFrom(a, x, lo, hi) ==
    IF lo >= hi THEN lo
    ELSE LET mid == (lo + hi) \div 2
         IN  IF x < a[mid + 1]
             THEN BisectRightFrom(a, x, lo, mid)
             ELSE BisectRightFrom(a, x, mid + 1, hi)

\* Mutant: bisect_left, the leftmost insertion point.
RECURSIVE BisectLeftFrom(_, _, _, _)
BisectLeftFrom(a, x, lo, hi) ==
    IF lo >= hi THEN lo
    ELSE LET mid == (lo + hi) \div 2
         IN  IF a[mid + 1] < x
             THEN BisectLeftFrom(a, x, mid + 1, hi)
             ELSE BisectLeftFrom(a, x, lo, mid)

BisectRight_Left(a, x) == BisectLeftFrom(a, x, 0, Len(a))

BisectRight(a, x) == BisectRightFrom(a, x, 0, Len(a))

\* Mutant: segments numbered from 1.
StartingFrame_OneBased(segment_index_within_video) ==
    (segment_index_within_video + 1) * segment_size

\* The starting frame of a segment inside its video.
StartingFrame(segment_index_within_video) ==
    segment_index_within_video * segment_size

\* ValueError("Virtual video index is out of range.")
OutOfRange == "ValueError: virtual video index is out of range"

\* The ValueError of ndarray.transpose when the axes do not match the array.
AxesMismatch == "ValueError: axes don't match array"

\* Mutant: no range check; an index past the end resolves into the last video.
Translate_NoRangeCheck(virtual_video_index) ==
    LET counts == VideosCroppedFramesNumber
        cumulative == Accumulate(counts)
        found == BisectRight(cumulative, virtual_video_index)
        video_index == Min(found, Len(counts) - 1)
    IN  IF counts = <<>>
        THEN [status |-> OutOfRange, video_index |-> 0, start |-> 0]
        ELSE LET previous_frames ==
                     IF video_index = 0 THEN 0 ELSE cumulative[video_index]
             IN  [status |-> "ok", video_index |-> video_index,
                  start |-> StartingFrame(virtual_video_index - previous_frames)]

\* VideoDataset.__translate_virtual_video_index_to_video_index; video_index
\* is 0-based as in the code.
Translate(virtual_video_index) ==
    LET counts == VideosCroppedFramesNumber
        cumulative == Accumulate(counts)
        video_index == BisectRight(cumulative, virtual_video_index)
    IN  IF video_index >= Len(counts)
        THEN [status |-> OutOfRange, video_index |-> 0, start |-> 0]
        ELSE LET previous_frames ==
                     IF video_index = 0 THEN 0 ELSE cumulative[video_index]
             IN  [status |-> "ok", video_index |-> video_index,
                  start |-> StartingFrame(virtual_video_index - previous_frames)]

\* Mutant: counts the videos that hold a segment instead of the segments.
Length_CountsVideos ==
    Cardinality({i \in 1..Len(videos) : videos[i] >= segment_size})

\* VideoDataset.__len__
Length == SumSeq(VideosCroppedFramesNumber)

\* ------------------------------------------------------------- dataset core
DEFAULT_VIDEO_SHAPE == <<0, 1, 2, 3>>

\* ndarray.transpose(axes) on the axes of an array.
Transpose(axes, perm) == [i \in 1..Len(perm) |-> axes[perm[i] + 1]]

NoFrames == [axes |-> <<>>, items |-> <<>>]

NoCall == [op |-> "none", arg |-> 0, status |-> "none", length |-> 0,
           video_index |-> 0, start |-> 0, frames |-> NoFrames,
           annotations |-> <<>>]

\* The outcome of VideoDataset.__getitem__(g).  np.array(frames) of an empty
\* list has one axis only, and transposing it by four axes raises.
GetItemOutcome(g) ==
    LET t == Translate(g)
    IN  IF t.status # "ok"
        THEN [NoCall EXCEPT !.op = "getitem", !.arg = g, !.status = t.status]
        ELSE IF SliceError(step) # "ok"
        THEN [NoCall EXCEPT !.op = "getitem", !.arg = g,
                            !.status = SliceError(step),
                            !.video_index = t.video_index, !.start = t.start]
        ELSE LET v == t.video_index + 1
                 starting_frame == t.start
                 ending_frame == t.start + segment_size
                 frames == VideoGetFrames(v, starting_frame, ending_frame, step)
                 anns == AnnotationsGetSlice(v, starting_frame, ending_frame, step)
             IN  IF frames = <<>>
                 THEN [NoCall EXCEPT !.op = "getitem", !.arg = g,
                                     !.status = AxesMismatch,
                                     !.video_index = t.video_index,
                                     !.start = t.start]
                 ELSE [op |-> "getitem", arg |-> g, status |-> "ok",
                       length |-> 0,
                       video_index |-> t.video_index, start |-> t.start,
                       frames |-> [axes |-> Transpose(DEFAULT_VIDEO_SHAPE,
                                                      video_shape),
                                   items |-> frames],
                       annotations |-> anns]

\* ------------------------------------------------------------------ padders
\* The values a frame and an annotation take in the padder calls; the frame
\* fill value is a value of the frames' element type.
FrameValues == {0, 255}

AnnotationValues == {-1, 3}

\* The outcome of padding one half: the padded sequence, or the error raised.
Padded(items) == [status |-> "ok", items |-> items]

Raised(error) == [status |-> error, items |-> <<>>]

\* Mutant: the input is never copied into the filled array.
ValuePadFrames_NoCopy(frames, target_segment_size, frames_padding_value) ==
    Padded(Repeat(frames_padding_value, target_segment_size))

\* frames_padded[:frames.shape[0]] = frames.  numpy assigns when the source
\* has the length of the target slice or length 1 (broadcast), and raises
\* ValueError otherwise.
ValuePadFrames(frames, target_segment_size, frames_padding_value) ==
    LET n == Len(frames)
        m == Min(n, target_segment_size)
    IN  IF n = m \/ n = 1
        THEN Padded([i \in 1..target_segment_size |->
                        IF i <= m
                        THEN (IF n = 1 THEN frames[1] ELSE frames[i])
                        ELSE frames_padding_value])
        ELSE Raised("ValueError")

\* annotations_padded[:len(annotations)] = annotations on a list: the first
\* min(n, target) entries are replaced by all of annotations.
ValuePadAnnotations(anns, target_segment_size, annotations_padding_value) ==
    LET n == Len(anns)
        filled == Repeat(annotations_padding_value, target_segment_size)
    IN  Padded(anns \o SubSeq(filled, Min(n, target_segment_size) + 1,
                              target_segment_size))

RECURSIVE Concat(_)
Concat(seqs) == IF seqs = <<>> THEN <<>> ELSE Head(seqs) \o Concat(Tail(seqs))

\* frames[-1:], which is empty for an empty array.
LastFrameSlice(frames) ==
    IF frames = <<>> THEN <<>> ELSE <<frames[Len(frames)]>>

\* LastValuePadder.__pad_frames
LastValuePadFrames(frames, target_segment_size) ==
    LET pad_length == target_segment_size - Len(frames)
    IN  IF pad_length <= 0
        THEN Padded(frames)
        ELSE Padded(Concat(<<frames>> \o
                           Repeat(LastFrameSlice(frames), pad_length)))

\* Mutant: repeats the first annotation instead of the last.
LastValuePadAnnotations_First(anns, target_segment_size) ==
    IF anns = <<>>
    THEN Raised("IndexError")
    ELSE Padded(anns \o Repeat(anns[1], target_segment_size - Len(anns)))

\* LastValuePadder.__pad_annotations; annotations[-1] raises IndexError on
\* an empty list.
LastValuePadAnnotations(anns, target_segment_size) ==
    IF anns = <<>>
    THEN Raised("IndexError")
    ELSE Padded(anns \o Repeat(anns[Len(anns)],
                               target_segment_size - Len(anns)))

NoPadCall == [padder |-> "none", frames |-> None, annotations |-> None,
              target_segment_size |-> 0,
              frames_padding_value |-> 0, annotations_padding_value |-> 0,
              status |-> "none", frames_padded |-> None,
              annotations_padded |-> None]

\* Padder.__call__: the frames are padded first, then the annotations; a half
\* that is None stays None, and an error leaves no result.
PadderOutcome(padder, frames, anns, target, fv, av, f, a) ==
    LET entry == [NoPadCall EXCEPT !.padder = padder, !.frames = frames,
                      !.annotations = anns, !.target_segment_size = target,
                      !.frames_padding_value = fv,
                      !.annotations_padding_value = av]
    IN  IF frames.present /\ f.status # "ok"
        THEN [entry EXCEPT !.status = f.status]
        ELSE IF anns.present /\ a.status # "ok"
        THEN [entry EXCEPT !.status = a.status]
        ELSE [entry EXCEPT !.status = "ok",
                  !.frames_padded =
                      IF frames.present THEN Some(f.items) ELSE None,
                  !.annotations_padded =
                      IF anns.present THEN Some(a.items) ELSE None]

\* ValuePadder(fv, av)(frames, annotations, target)
ValuePadderOutcome(frames, anns, target, fv, av) ==
    PadderOutcome("ValuePadder", frames, anns, target, fv, av,
                  ValuePadFrames(frames.items, target, fv),
                  ValuePadAnnotations(anns.items, target, av))

\* LastValuePadder()(frames, annotations, target)
LastValuePadderOutcome(frames, anns, target) ==
    PadderOutcome("LastValuePadder", frames, anns, target, 0, 0,
                  LastValuePadFrames(frames.items, target),
                  LastValuePadAnnotations(anns.items, target))

SeqsUpTo(S, n) == UNION {[1..k -> S] : k \in 0..n}

FrameInputs == {None} \cup {Some(x) : x \in SeqsUpTo(FrameValues, MaxPadLen)}

AnnotationInputs ==
    {None} \cup {Some(x) : x \in SeqsUpTo(AnnotationValues, MaxPadLen)}

\* ------------------------------------------------------------- construction
ALLOWED_INDEX_OVERFLOW == 100

\* The arguments of VideoDataset(...), as far as __params_check and the
\* handle constructors read them.  BaseConfig passes every check.
BaseConfig ==
    [annotations_dir_exists |-> TRUE,
     videos_dir_exists |-> TRUE,
     video_processor |-> "VideoFromVideoFramesDirectory",
     video_extension_given |-> FALSE,
     annotations_processor |-> "AnnotationsFromFrameLevelTxtFileAnnotations",
     segment_size |-> [kind |-> "int", value |-> 2],
     ids_file |-> "exists",
     frames_transform |-> "None",
     annotations_transform |-> "None",
     verbose_is_bool |-> TRUE,
     video_shape |-> [kind |-> "tuple", enum |-> TRUE,
                      items |-> DEFAULT_VIDEO_SHAPE],
     step |-> NoStep]

ShapeOverrides ==
    {[kind |-> "None", enum |-> TRUE, items |-> <<>>],
     [kind |-> "list", enum |-> TRUE, items |-> DEFAULT_VIDEO_SHAPE],
     [kind |-> "tuple", enum |-> TRUE, items |-> <<0, 1, 2>>],
     [kind |-> "tuple", enum |-> TRUE, items |-> <<0, 1, 2, 3, 3>>],
     [kind |-> "tuple", enum |-> FALSE, items |-> DEFAULT_VIDEO_SHAPE],
     [kind |-> "tuple", enum |-> TRUE, items |-> <<0, 1, 1, 3>>],
     [kind |-> "tuple", enum |-> TRUE, items |-> <<3, 0, 1, 2>>]}

\* One argument given another value than in BaseConfig.
Overrides ==
    {<<"annotations_dir_exists", FALSE>>, <<"videos_dir_exists", FALSE>>,
     <<"video_extension_given", TRUE>>, <<"verbose_is_bool", FALSE>>}
    \cup {<<"video_processor", x>> :
             x \in {"VideoFromVideoFile", "not a class", "not a Video"}}
    \cup {<<"annotations_processor", x>> :
             x \in {"not a class", "not an Annotations"}}
    \cup {<<"segment_size", x>> :
             x \in {[kind |-> "other", value |-> 0]}
                   \cup {[kind |-> "int", value |-> k] : k \in -1..1}}
    \cup {<<"ids_file", x>> : x \in {"None", "missing"}}
    \cup {<<"frames_transform", x>> : x \in {"callable", "not callable"}}
    \cup {<<"annotations_transform", x>> : x \in {"callable", "not callable"}}
    \cup {<<"video_shape", x>> : x \in ShapeOverrides}
    \cup {<<"step", x>> : x \in {OtherStep} \cup {IntStep(k) : k \in -1..2}}

Override(c, o) == [c EXCEPT ![o[1]] = o[2]]

\* The argument lists considered: BaseConfig with up to two arguments changed.
Configs == {Override(Override(BaseConfig, o1), o2) : o1, o2 \in Overrides}

\* What the storage holds for one sample id: the video (a frames directory or
\* a video file) with its frame count, and the annotation file with its lines.
ResourceKinds ==
    {[video_exists |-> TRUE, frames |-> 2, annotation_exists |-> TRUE, lines |-> 2],
     [video_exists |-> TRUE, frames |-> 3, annotation_exists |-> TRUE, lines |-> 1],
     [video_exists |-> FALSE, frames |-> 0, annotation_exists |-> TRUE, lines |-> 2],
     [video_exists |-> TRUE, frames |-> 2, annotation_exists |-> FALSE, lines |-> 0]}

ResourceLists == UNION {[1..n -> ResourceKinds] : n \in 0..MaxVideos}

ConfigError(message) == <<"ValueError", message>>

Passed == <<"ok", "">>

UndefinedVideo == <<"UndefinedVideoException", "No valid video file found">>

UndefinedAnnotations ==
    <<"UndefinedAnnotationsException", "No valid annotations file found">>

\* Mutant: the components of the video shape are not checked for uniqueness.
ParamsCheck_NoUniqueness(c) ==
    IF ~c.annotations_dir_exists
    THEN ConfigError("Annotations directory does not exist.")
    ELSE IF ~c.videos_dir_exists
    THEN ConfigError("Videos directory does not exist.")
    ELSE IF c.video_processor = "not a class"
    THEN ConfigError("Video processor must be a class.")
    ELSE IF c.annotations_processor = "not a class"
    THEN ConfigError("Annotations processor must be a class.")
    ELSE IF c.video_processor = "not a Video"
    THEN ConfigError("Video processor must inherit from the Video class.")
    ELSE IF c.annotations_processor = "not an Annotations"
    THEN ConfigError("Annotations processor must inherit from the Annotations class.")
    ELSE IF c.segment_size.kind # "int"
    THEN ConfigError("Segment size must be an integer.")
    ELSE IF c.segment_size.value <= 0
    THEN ConfigError("Segment size must be a positive integer.")
    ELSE IF c.ids_file = "missing"
    THEN ConfigError("ids_file does not exist.")
    ELSE IF c.frames_transform = "not callable"
    THEN ConfigError("Frames transform must be a callable function.")
    ELSE IF c.annotations_transform = "not callable"
    THEN ConfigError("Annotations transform must be a callable function.")
    ELSE IF ~c.verbose_is_bool
    THEN ConfigError("Verbose must be a boolean.")
    ELSE IF c.video_shape.kind = "None"
    THEN ConfigError("Video shape must not be None.")
    ELSE IF c.video_shape.kind # "tuple"
    THEN ConfigError("Video shape must be a tuple.")
    ELSE IF Len(c.video_shape.items) # 4
    THEN ConfigError("Video shape must have exactly 4 components.")
    ELSE IF ~c.video_shape.enum
    THEN ConfigError("Video shape components must be of type VideoShapeComponents.")
    ELSE Passed

\* VideoDataset.__params_check: the first check that fails raises.
ParamsCheck(c) ==
    IF ParamsCheck_NoUniqueness(c) # Passed
    THEN ParamsCheck_NoUniqueness(c)
    ELSE IF Cardinality({c.video_shape.items[i] : i \in 1..4}) # 4
    THEN ConfigError("Video shape components must be unique.")
    ELSE Passed

Handle(length) == [status |-> Passed, length |-> length]

NoHandle(error) == [status |-> error, length |-> 0]

UnexpectedKeyword ==
    <<"TypeError", "__init__() got an unexpected keyword argument">>

\* self.video_processor(self.videos_dir, id, **self.video_processor_kwargs):
\* the frames directory handle checks that the directory exists; the video
\* file handle looks for the file only when no video_extension is passed, and
\* reads the frame count with cv2, which reports 0 for a file it cannot open.
MakeVideo(c, r) ==
    IF c.video_processor = "VideoFromVideoFramesDirectory"
    THEN IF c.video_extension_given THEN NoHandle(UnexpectedKeyword)
         ELSE IF r.video_exists THEN Handle(r.frames)
         ELSE NoHandle(UndefinedVideo)
    ELSE IF c.video_extension_given
         THEN Handle(IF r.video_exists THEN r.frames ELSE 0)
         ELSE IF r.video_exists THEN Handle(r.frames)
         ELSE NoHandle(UndefinedVideo)

\* self.annotations_processor(self.annotations_dir, id, ...)
MakeAnnotations(c, r) ==
    IF r.annotation_exists THEN Handle(r.lines)
    ELSE NoHandle(UndefinedAnnotations)

\* self.ids: the names in videos_dir when no ids_file is given, else the
\* lines of the ids_file (which names every sample of the storage).
ReadIdsFrom(c, rs) ==
    IF c.ids_file = "None"
    THEN SelectSeq([i \in 1..Len(rs) |-> i], LAMBDA i : rs[i].video_exists)
    ELSE [i \in 1..Len(rs) |-> i]

\* The progress of one VideoDataset(...) call.
NewConstruction(c, rs) ==
    [pc |-> "params_check", config |-> c, resources |-> rs, status |-> Passed,
     ids |-> <<>>, video_handles |-> <<>>, annotation_handles |-> <<>>]

\* A finished construction that produced the dataset (vs, ans, s, st, shape).
Constructed(vs, ans, s, st, shape) ==
    [pc |-> "done",
     config |-> [BaseConfig EXCEPT
                    !.segment_size = [kind |-> "int", value |-> s],
                    !.step = st,
                    !.video_shape = [kind |-> "tuple", enum |-> TRUE,
                                     items |-> shape]],
     resources |-> [i \in 1..Len(vs) |->
                       [video_exists |-> TRUE, frames |-> vs[i],
                        annotation_exists |-> TRUE, lines |-> ans[i]]],
     status |-> Passed,
     ids |-> [i \in 1..Len(vs) |-> i],
     video_handles |-> vs,
     annotation_handles |-> ans]

\* One access to an annotation handle: annotations[v][start] (kind "index")
\* or annotations[v][start:stop] (kind "range"), and what came of it.
NoAccess == [kind |-> "none", handle |-> 0, start |-> 0, stop |-> 0,
             status |-> "none", items |-> <<>>]

IndexOutOfBounds == "IndexError: Index out of bounds"

\* Annotations.__getitem__(int)
AnnotationsGetIndex(v, i) ==
    IF i < 0 \/ i >= annotations[v] + max_overflow_value
    THEN [NoAccess EXCEPT !.kind = "index", !.handle = v, !.start = i,
                          !.stop = i + 1, !.status = IndexOutOfBounds]
    ELSE [kind |-> "index", handle |-> v, start |-> i, stop |-> i + 1,
          status |-> "ok", items |-> <<GetAnnotation(v, i)>>]

\* Annotations.__getitem__(slice(start, stop))
AnnotationsGetRange(v, start, stop) ==
    [kind |-> "range", handle |-> v, start |-> start, stop |-> stop,
     status |-> "ok", items |-> AnnotationsGetSlice(v, start, stop, NoStep)]

\* --------------------------------------------------------- one get, stepwise
\* Mutant: the frames transform is called before the axes are reordered.
Steps_TransformBeforeTranspose ==
    <<"slice", "frames_transform", "transpose", "annotations_transform",
      "return">>

\* The statements of VideoDataset.__getitem__, in program order.
Steps ==
    <<"slice", "transpose", "frames_transform", "annotations_transform",
      "return">>

\* A value of __getitem__'s local `frames` / `annotations`: fn is "identity"
\* for the value as read, or the name of the transform it was passed through.
NoValue == [fn |-> "identity", axes |-> <<>>, items |-> <<>>]

\* One execution of dataset[arg]: pc counts the statements executed, log
\* names them, frames_in / annotations_in keep what each transform was
\* called with.
NoRun == [pc |-> 0, arg |-> 0, status |-> "none",
          frames |-> NoValue, annotations |-> NoValue,
          frames_in |-> NoValue, annotations_in |-> NoValue,
          log |-> <<>>]

Executed(r, name) == [r EXCEPT !.pc = @ + 1, !.log = Append(@, name)]

\* Lines 198-204: resolve the index and slice both handles.
SliceStep(g) ==
    LET o == GetItemOutcome(g)
    IN  IF o.status \notin {"ok", AxesMismatch}
        THEN [NoRun EXCEPT !.arg = g, !.status = o.status]
        ELSE LET t == Translate(g)
                 v == t.video_index + 1
             IN  Executed(
                   [NoRun EXCEPT
                      !.arg = g, !.status = "running",
                      !.frames = [fn |-> "identity",
                                  axes |-> DEFAULT_VIDEO_SHAPE,
                                  items |-> VideoGetFrames(v, t.start,
                                               t.start + segment_size, step)],
                      !.annotations = [fn |-> "identity", axes |-> <<>>,
                                       items |-> AnnotationsGetSlice(v, t.start,
                                               t.start + segment_size, step)]],
                   "slice")

\* Line 207: frames.transpose(self.video_shape)
TransposeStep(r) ==
    IF r.frames.items = <<>>
    THEN [r EXCEPT !.status = AxesMismatch]
    ELSE Executed([r EXCEPT !.frames.axes = Transpose(@, video_shape)],
                  "transpose")

\* Lines 209-210
FramesTransformStep(r, configured) ==
    IF configured
    THEN Executed([r EXCEPT !.frames_in = r.frames,
                            !.frames.fn = "frames_transform"],
                  "frames_transform")
    ELSE [r EXCEPT !.pc = @ + 1]

\* Lines 212-213
AnnotationsTransformStep(r, configured) ==
    IF configured
    THEN Executed([r EXCEPT !.annotations_in = r.annotations,
                            !.annotations.fn = "annotations_transform"],
                  "annotations_transform")
    ELSE [r EXCEPT !.pc = @ + 1]

\* ------------------------------------------------- segment-level CSV handle
\* int(float(timestamp) * self.fps / 1000) for a timestamp >= 0 in
\* milliseconds: int() drops the fraction.
ToFrame(timestamp, fps) == (timestamp * fps) \div 1000

\* The body of the loop for one row: pad with the fallback up to the row's
\* start frame, then append the action end_frame - start_frame + 1 times.
ExtendWith(entries, start_frame, end_frame, action) ==
    entries
        \o Repeat(FALLBACK_ANNOTATION, start_frame - Len(entries))
        \o Repeat(action, end_frame - start_frame + 1)

\* AnnotationsFromSegmentLevelCsvFileAnnotations.__load_annotations
RECURSIVE LoadRows(_, _, _)
LoadRows(rows, fps, entries) ==
    IF rows = <<>> THEN entries
    ELSE LET row == Head(rows)
             start_frame == ToFrame(row.start, fps)
             end_frame == ToFrame(row.end, fps)
         IN  LoadRows(Tail(rows), fps,
                      ExtendWith(entries, start_frame, end_frame,
                                 row.action))

LoadAnnotations(rows, fps) == LoadRows(rows, fps, <<>>)

\* A CSV file (rows, fps of its video), the list loaded from it, and the
\* last call on the handle with its outcome.
NoCsv == [rows |-> <<>>, fps |-> 0, loaded |-> FALSE, annotations |-> <<>>,
          op |-> "none", arg |-> 0, status |-> "none", length |-> 0,
          value |-> FALLBACK_ANNOTATION]

\* AnnotationsFromSegmentLevelCsvFileAnnotations.__getitem__(int)
CsvGetIndex(c, i) ==
    IF i < 0 \/ i >= Len(c.annotations) + max_overflow_value
    THEN [c EXCEPT !.op = "getitem", !.arg = i, !.status = IndexOutOfBounds]
    ELSE [c EXCEPT !.op = "getitem", !.arg = i, !.status = "ok",
                   !.value = IF i >= Len(c.annotations)
                             THEN FALLBACK_ANNOTATION
                             ELSE c.annotations[i + 1]]

\* ------------------------------------------------------------ configuration
MaxIndex == MaxVideos * MaxFrames + 1

GlobalIndices == 0..MaxIndex

VideoLists == UNION {[1..n -> 0..MaxFrames] : n \in 0..MaxVideos}

\* The annotation handles of a dataset: each as long as its video, or shorter
\* by a common shortfall.
AnnotationLists(vs) ==
    {[i \in 1..Len(vs) |-> Max(vs[i] - d, 0)] : d \in 0..MaxShortfall}

StepValues == {NoStep} \cup {IntStep(k) : k \in 1..MaxStep}

VideoShapes == {DEFAULT_VIDEO_SHAPE, <<3, 0, 1, 2>>}

Init ==
    /\ videos \in VideoLists
    /\ annotations \in AnnotationLists(videos)
    /\ segment_size \in 1..MaxSegmentSize
    /\ step \in StepValues
    /\ video_shape \in VideoShapes
    /\ max_overflow_value \in 0..MaxOverflow
    /\ call = NoCall
    /\ padcall = NoPadCall
    /\ ctor = Constructed(videos, annotations, segment_size, step, video_shape)
    /\ acc = NoAccess
    /\ run = NoRun
    /\ csv = NoCsv

\* ------------------------------------------------------------------ actions
\* Calls are synchronous: one is made when the previous one has returned.
\* len(dataset)
LenCall ==
    /\ ctor.pc = "done"
    /\ call.op = "none"
    /\ call' = [NoCall EXCEPT !.op = "len", !.status = "ok", !.length = Length]
    /\ UNCHANGED <<dataset_vars, padcall, other_vars>>

\* dataset[g] on frame directories, with no frames_transform and no
\* annotations_transform configured.
GetItem(g) ==
    /\ ctor.pc = "done"
    /\ ctor.config.video_processor = "VideoFromVideoFramesDirectory"
    /\ ctor.config.frames_transform = "None"
    /\ ctor.config.annotations_transform = "None"
    /\ call.op = "none"
    /\ call' = GetItemOutcome(g)
    /\ UNCHANGED <<dataset_vars, padcall, other_vars>>

GetItemCall == \E g \in GlobalIndices : GetItem(g)

\* The caller takes the result (or the error) of the call.
CallReturn ==
    /\ call.op # "none"
    /\ call' = NoCall
    /\ UNCHANGED <<dataset_vars, padcall, other_vars>>

Next == LenCall \/ GetItemCall \/ CallReturn

Spec == Init /\ [][Next]_vars

\* ----------------------------------------------------- construction actions
ConstructInit ==
    /\ ctor \in {NewConstruction(c, rs) : c \in Configs, rs \in ResourceLists}
    /\ videos = <<>>
    /\ annotations = <<>>
    /\ segment_size = 1
    /\ step = NoStep
    /\ video_shape = DEFAULT_VIDEO_SHAPE
    /\ max_overflow_value = ALLOWED_INDEX_OVERFLOW
    /\ call = NoCall
    /\ padcall = NoPadCall
    /\ acc = NoAccess
    /\ run = NoRun
    /\ csv = NoCsv

Fail(error) == [ctor EXCEPT !.pc = "failed", !.status = error]

\* self.__params_check()
ParamsCheckStep ==
    /\ ctor.pc = "params_check"
    /\ ctor' = IF ParamsCheck(ctor.config) # Passed
               THEN Fail(ParamsCheck(ctor.config))
               ELSE [ctor EXCEPT !.pc = "read_ids"]
    /\ UNCHANGED <<dataset_vars, call, padcall, acc, run, csv>>

\* self.ids = ...
ReadIds ==
    /\ ctor.pc = "read_ids"
    /\ ctor' = [ctor EXCEPT !.pc = "prepare_videos",
                            !.ids = ReadIdsFrom(ctor.config, ctor.resources)]
    /\ UNCHANGED <<dataset_vars, call, padcall, acc, run, csv>>

\* list(map(lambda id: self.video_processor(...), self.ids)), one id at a time
PrepareVideo ==
    /\ ctor.pc = "prepare_videos"
    /\ ctor' =
         LET n == Len(ctor.video_handles)
         IN  IF n = Len(ctor.ids)
             THEN [ctor EXCEPT !.pc = "prepare_annotations"]
             ELSE LET h == MakeVideo(ctor.config, ctor.resources[ctor.ids[n + 1]])
                  IN  IF h.status # Passed THEN Fail(h.status)
                      ELSE [ctor EXCEPT !.video_handles = Append(@, h.length)]
    /\ UNCHANGED <<dataset_vars, call, padcall, acc, run, csv>>

\* list(map(lambda id: self.annotations_processor(...), self.ids))
PrepareAnnotation ==
    /\ ctor.pc = "prepare_annotations"
    /\ ctor' =
         LET n == Len(ctor.annotation_handles)
         IN  IF n = Len(ctor.ids)
             THEN [ctor EXCEPT !.pc = "segment_size_check"]
             ELSE LET h == MakeAnnotations(ctor.config,
                                           ctor.resources[ctor.ids[n + 1]])
                  IN  IF h.status # Passed THEN Fail(h.status)
                      ELSE [ctor EXCEPT !.annotation_handles = Append(@, h.length)]
    /\ UNCHANGED <<dataset_vars, call, padcall, acc, run, csv>>

\* self.__segment_size_check() only warns; then __init__ returns the dataset.
SegmentSizeCheck ==
    /\ ctor.pc = "segment_size_check"
    /\ IF ctor.config.segment_size.value = 0 /\ ctor.video_handles # <<>>
       THEN /\ ctor' = Fail(<<"ZeroDivisionError", "integer modulo by zero">>)
            /\ UNCHANGED dataset_vars
       ELSE /\ ctor' = [ctor EXCEPT !.pc = "done"]
            /\ videos' = ctor.video_handles
            /\ annotations' = ctor.annotation_handles
            /\ segment_size' = ctor.config.segment_size.value
            /\ step' = ctor.config.step
            /\ video_shape' = ctor.config.video_shape.items
            /\ UNCHANGED max_overflow_value
    /\ UNCHANGED <<call, padcall, acc, run, csv>>

ConstructNext ==
    \/ ParamsCheckStep
    \/ ReadIds
    \/ PrepareVideo
    \/ PrepareAnnotation
    \/ SegmentSizeCheck
    \/ LenCall
    \/ GetItemCall
    \/ CallReturn

ConstructSpec == ConstructInit /\ [][ConstructNext]_vars

\* ------------------------------------------------ annotation handle actions
\* The indices reach one past the overflow tolerance of the longest handle.
AccessIndices == -1..(MaxFrames + MaxOverflow + 1)

AnnotationInit ==
    /\ videos \in {<<n>> : n \in 0..MaxFrames}
    /\ annotations = videos
    /\ segment_size = 1
    /\ step = NoStep
    /\ video_shape = DEFAULT_VIDEO_SHAPE
    /\ max_overflow_value \in 0..MaxOverflow
    /\ call = NoCall
    /\ padcall = NoPadCall
    /\ ctor = Constructed(videos, annotations, segment_size, step, video_shape)
    /\ acc = NoAccess
    /\ run = NoRun
    /\ csv = NoCsv

\* dataset.annotations[0][i]
AnnotationIndexAccess ==
    \E i \in AccessIndices :
        /\ acc' = AnnotationsGetIndex(1, i)
        /\ UNCHANGED <<dataset_vars, call, padcall, ctor, run, csv>>

\* dataset.annotations[0][start:stop]
AnnotationRangeAccess ==
    \E start, stop \in AccessIndices :
        /\ 0 <= start
        /\ start < stop
        /\ acc' = AnnotationsGetRange(1, start, stop)
        /\ UNCHANGED <<dataset_vars, call, padcall, ctor, run, csv>>

AnnotationNext == AnnotationIndexAccess \/ AnnotationRangeAccess

AnnotationSpec == AnnotationInit /\ [][AnnotationNext]_vars

\* ----------------------------------------------------------- storage actions
\* A dataset of one frames directory, as constructed; ctor.video_handles
\* keeps the frame count the directory had at construction.
StorageInit ==
    /\ videos \in {<<n>> : n \in 0..MaxFrames}
    /\ annotations = videos
    /\ segment_size \in 1..MaxSegmentSize
    /\ step = NoStep
    /\ video_shape = DEFAULT_VIDEO_SHAPE
    /\ max_overflow_value = 0
    /\ call = NoCall
    /\ padcall = NoPadCall
    /\ ctor = Constructed(videos, annotations, segment_size, step, video_shape)
    /\ acc = NoAccess
    /\ run = NoRun
    /\ csv = NoCsv

\* Frame files are added to or removed from the directory of video i.
\* VideoFromVideoFramesDirectory.__len__ lists the directory on every call,
\* so the handle's length is the directory's current number of files.
StorageChange ==
    \E i \in 1..Len(videos), n \in 0..MaxFrames :
        /\ ctor.pc = "done"
        /\ ctor.config.video_processor = "VideoFromVideoFramesDirectory"
        /\ n # videos[i]
        /\ videos' = [videos EXCEPT ![i] = n]
        /\ UNCHANGED <<annotations, segment_size, step, video_shape,
                       max_overflow_value, call, padcall, other_vars>>

StorageNext == LenCall \/ GetItemCall \/ CallReturn \/ StorageChange

StorageSpec == StorageInit /\ [][StorageNext]_vars

\* ------------------------------------------------------------ strided gets
\* Datasets constructed with an integer step of 1..MaxStride.
StrideInit ==
    /\ videos \in VideoLists
    /\ annotations \in AnnotationLists(videos)
    /\ segment_size \in 1..MaxSegmentSize
    /\ step \in {IntStep(k) : k \in 1..MaxStride}
    /\ video_shape = DEFAULT_VIDEO_SHAPE
    /\ max_overflow_value = 0
    /\ call = NoCall
    /\ padcall = NoPadCall
    /\ ctor = Constructed(videos, annotations, segment_size, step, video_shape)
    /\ acc = NoAccess
    /\ run = NoRun
    /\ csv = NoCsv

StrideNext == LenCall \/ GetItemCall \/ CallReturn

StrideSpec == StrideInit /\ [][StrideNext]_vars

\* ------------------------------------------------- stepwise __getitem__ actions
TransformChoices == {"None", "callable"}

\* Datasets constructed with or without each transform, step unset.
TransformInit ==
    /\ videos \in VideoLists
    /\ annotations = videos
    /\ segment_size \in 1..MaxSegmentSize
    /\ step = NoStep
    /\ video_shape \in VideoShapes
    /\ max_overflow_value = 0
    /\ call = NoCall
    /\ padcall = NoPadCall
    /\ \E ft, at \in TransformChoices :
           ctor = [Constructed(videos, annotations, segment_size, step,
                               video_shape)
                      EXCEPT !.config.frames_transform = ft,
                             !.config.annotations_transform = at]
    /\ acc = NoAccess
    /\ run = NoRun
    /\ csv = NoCsv

Running(name) ==
    /\ run.status = "running"
    /\ Steps[run.pc + 1] = name

RunSlice ==
    \E g \in GlobalIndices :
        /\ ctor.pc = "done"
        /\ run.status = "none"
        /\ run' = SliceStep(g)
        /\ UNCHANGED <<dataset_vars, call, padcall, ctor, acc, csv>>

RunTranspose ==
    /\ Running("transpose")
    /\ run' = TransposeStep(run)
    /\ UNCHANGED <<dataset_vars, call, padcall, ctor, acc, csv>>

RunFramesTransform ==
    /\ Running("frames_transform")
    /\ run' = FramesTransformStep(run, ctor.config.frames_transform # "None")
    /\ UNCHANGED <<dataset_vars, call, padcall, ctor, acc, csv>>

RunAnnotationsTransform ==
    /\ Running("annotations_transform")
    /\ run' = AnnotationsTransformStep(run,
                  ctor.config.annotations_transform # "None")
    /\ UNCHANGED <<dataset_vars, call, padcall, ctor, acc, csv>>

\* Line 215: return frames, annotations
RunReturn ==
    /\ Running("return")
    /\ run' = [run EXCEPT !.pc = @ + 1, !.status = "returned"]
    /\ UNCHANGED <<dataset_vars, call, padcall, ctor, acc, csv>>

TransformNext ==
    \/ RunSlice
    \/ RunTranspose
    \/ RunFramesTransform
    \/ RunAnnotationsTransform
    \/ RunReturn

TransformSpec == TransformInit /\ [][TransformNext]_vars

\* ------------------------------------------- index resolution on its own
\* Datasets with annotation files as long as their videos, step unset and
\* the default axis order: what index resolution depends on varies.
ResolutionInit ==
    /\ videos \in VideoLists
    /\ annotations = videos
    /\ segment_size \in 1..MaxSegmentSize
    /\ step = NoStep
    /\ video_shape = DEFAULT_VIDEO_SHAPE
    /\ max_overflow_value = 0
    /\ call = NoCall
    /\ padcall = NoPadCall
    /\ ctor = Constructed(videos, annotations, segment_size, step, video_shape)
    /\ acc = NoAccess
    /\ run = NoRun
    /\ csv = NoCsv

ResolutionSpec == ResolutionInit /\ [][Next]_vars

\* ------------------------------------------------------ negative global indices
NegativeIndices == (0 - MaxFrames)..(-1)

\* dataset[g] with g < 0
NegativeGetItemCall == \E g \in NegativeIndices : GetItem(g)

NegativeIndexNext == LenCall \/ NegativeGetItemCall \/ CallReturn

NegativeIndexSpec == ResolutionInit /\ [][NegativeIndexNext]_vars

\* ---------------------------------------------------------- CSV handle actions
\* Timestamps in half seconds; a row ends no earlier than it starts.  The
\* k-th row of a file carries the k-th action.
Timestamps == {500 * k : k \in 0..MaxTicks}

CsvRowTimes ==
    {[start |-> p[1], end |-> p[2], action |-> <<"action", 0, 0>>] :
        p \in {q \in Timestamps \X Timestamps : q[1] <= q[2]}}

CsvFiles ==
    UNION {{[k \in 1..n |-> [f[k] EXCEPT !.action = <<"action", k, 0>>]] :
               f \in [1..n -> CsvRowTimes]} : n \in 0..MaxRows}

CsvInit ==
    /\ videos = <<>>
    /\ annotations = <<>>
    /\ segment_size = 1
    /\ step = NoStep
    /\ video_shape = DEFAULT_VIDEO_SHAPE
    /\ max_overflow_value = MaxOverflow
    /\ call = NoCall
    /\ padcall = NoPadCall
    /\ ctor = Constructed(videos, annotations, segment_size, step, video_shape)
    /\ acc = NoAccess
    /\ run = NoRun
    /\ \E rows \in CsvFiles, fps \in {1000, 2000} :
           csv = [NoCsv EXCEPT !.rows = rows, !.fps = fps]

\* AnnotationsFromSegmentLevelCsvFileAnnotations(dir, id, fps)
CsvLoad ==
    /\ ~csv.loaded
    /\ csv' = [csv EXCEPT !.loaded = TRUE,
                          !.annotations = LoadAnnotations(csv.rows, csv.fps)]
    /\ UNCHANGED <<dataset_vars, call, padcall, ctor, acc, run>>

\* len(handle)
CsvLenCall ==
    /\ csv.loaded
    /\ csv.op = "none"
    /\ csv' = [csv EXCEPT !.op = "len", !.status = "ok",
                          !.length = Len(csv.annotations)]
    /\ UNCHANGED <<dataset_vars, call, padcall, ctor, acc, run>>

\* handle[i]
CsvGetItemCall ==
    \E i \in 0..(2 * MaxTicks + MaxOverflow + 1) :
        /\ csv.loaded
        /\ csv.op = "none"
        /\ csv' = CsvGetIndex(csv, i)
        /\ UNCHANGED <<dataset_vars, call, padcall, ctor, acc, run>>

\* The caller takes the result (or the error) of the call on the handle.
CsvReturn ==
    /\ csv.op # "none"
    /\ csv' = [csv EXCEPT !.op = "none", !.arg = 0, !.status = "none",
                          !.length = 0, !.value = FALLBACK_ANNOTATION]
    /\ UNCHANGED <<dataset_vars, call, padcall, ctor, acc, run>>

CsvNext == CsvLoad \/ CsvLenCall \/ CsvGetItemCall \/ CsvReturn

CsvSpec == CsvInit /\ [][CsvNext]_vars

\* ---------------------------------------------------------- padder actions
\* The padders take no part of the dataset's state: they are checked on a
\* dataset without videos.
PadderInit ==
    /\ videos = <<>>
    /\ annotations = <<>>
    /\ segment_size = 1
    /\ step = NoStep
    /\ video_shape = DEFAULT_VIDEO_SHAPE
    /\ max_overflow_value = 0
    /\ call = NoCall
    /\ padcall = NoPadCall
    /\ ctor = Constructed(videos, annotations, segment_size, step, video_shape)
    /\ acc = NoAccess
    /\ run = NoRun
    /\ csv = NoCsv

\* Calls are synchronous: one is made when the previous one has returned.
ValuePadderCall ==
    \E frames \in FrameInputs, anns \in AnnotationInputs,
       target \in 0..MaxTarget, fv \in FrameValues, av \in AnnotationValues :
        /\ padcall.padder = "none"
        /\ padcall' = ValuePadderOutcome(frames, anns, target, fv, av)
        /\ UNCHANGED <<dataset_vars, call, other_vars>>

LastValuePadderCall ==
    \E frames \in FrameInputs, anns \in AnnotationInputs,
       target \in 0..MaxTarget :
        /\ padcall.padder = "none"
        /\ padcall' = LastValuePadderOutcome(frames, anns, target)
        /\ UNCHANGED <<dataset_vars, call, other_vars>>

\* The caller takes the result (or the error); the padder keeps no state.
PadderReturn ==
    /\ padcall.padder # "none"
    /\ padcall' = NoPadCall
    /\ UNCHANGED <<dataset_vars, call, other_vars>>

PadderNext == ValuePadderCall \/ LastValuePadderCall \/ PadderReturn

PadderSpec == PadderInit /\ [][PadderNext]_vars

\* ===================================================================== claims
\* Definitions used to state the claims, independent of the operators above.

\* The complete windows [k*s, k*s + s) of a video of l frames.
CompleteSegments(l) == {k \in 0..l : (k + 1) * segment_size <= l}

\* The closed form of the specification for segment size s and overlap o.
SpecSegmentCount(l, s, o) == Max(0, l - o) \div (s - o)

\* Segments of the videos 0..v (0-based), as the closed form at overlap 0.
CumulativeCount(v) ==
    SumSeq([i \in 1..(v + 1) |-> SpecSegmentCount(videos[i], segment_size, 0)])

TotalSegments == CumulativeCount(Len(videos) - 1)

Overlaps == 0..(segment_size - 1)

\* A get(g) with a valid global index.
ValidGet == call.op = "getitem" /\ 0 <= call.arg /\ call.arg < TotalSegments

OwnsIndex(v, g) ==
    /\ v \in 0..(Len(videos) - 1)
    /\ CumulativeCount(v) > g
    /\ \A u \in 0..(v - 1) : CumulativeCount(u) <= g

PreviousCount(v) == IF v = 0 THEN 0 ELSE CumulativeCount(v - 1)

C4_OutOfRange ==
    (call.op = "getitem" /\ call.arg >= TotalSegments) =>
        /\ call.status = OutOfRange
        /\ call.frames = NoFrames
        /\ call.annotations = <<>>

\* C4 witness: videos that hold no segment at all, and get(0).
C4_Witness ==
    /\ call.op = "getitem"
    /\ call.arg = 0
    /\ Len(videos) = 2
    /\ \E i \in 1..2 : videos[i] > 0
    /\ TotalSegments = 0
    /\ call.status = OutOfRange

\* C5: a valid g resolves to a window inside its video: 0 <= start and
\* start + segment_size <= frame count, so no partial segment is emitted and
\* no video shorter than segment_size is selected.
C5_SegmentInsideVideo ==
    ValidGet =>
        /\ call.status = "ok"
        /\ call.video_index \in 0..(Len(videos) - 1)
        /\ 0 <= call.start
        /\ call.start + segment_size <= videos[call.video_index + 1]
        /\ videos[call.video_index + 1] >= segment_size
        /\ step = NoStep => Len(call.frames.items) = segment_size
        /\ \A k \in 1..Len(call.frames.items) :
               /\ call.frames.items[k][1] = call.video_index + 1
               /\ call.frames.items[k][2] >= call.start
               /\ call.frames.items[k][2] < call.start + segment_size

\* C5 witness: the last segment of a video that has a trailing partial
\* segment, after a video too short to hold a segment.
C5_Witness ==
    /\ ValidGet
    /\ call.status = "ok"
    /\ call.video_index = 1
    /\ videos[1] < segment_size
    /\ videos[2] % segment_size # 0
    /\ call.start + 2 * segment_size > videos[2]

\* C6: with step unset, every get(g) with a valid g returns exactly
\* segment_size frames, in the configured axis order, and exactly
\* segment_size annotations.
C6_FixedLengthSample ==
    (ValidGet /\ step = NoStep) =>
        /\ call.status = "ok"
        /\ Len(call.frames.items) = segment_size
        /\ (video_shape = DEFAULT_VIDEO_SHAPE =>
                call.frames.axes = DEFAULT_VIDEO_SHAPE)
        /\ Len(call.annotations) = segment_size

\* The supplied halves of a padder call.
FramesIn == padcall.frames.items

AnnotationsIn == padcall.annotations.items

Target == padcall.target_segment_size

\* out is input followed by copies of fill up to the target length.
PaddedWith(out, input, fill) ==
    /\ out.present
    /\ Len(out.items) = Target
    /\ \A i \in 1..Len(input) : out.items[i] = input[i]
    /\ \A i \in (Len(input) + 1)..Target : out.items[i] = fill

\* Every supplied half has a length in lo..Target, and one is supplied.
HalvesWithin(lo) ==
    /\ padcall.frames.present \/ padcall.annotations.present
    /\ padcall.frames.present =>
           (lo <= Len(FramesIn) /\ Len(FramesIn) <= Target)
    /\ padcall.annotations.present =>
           (lo <= Len(AnnotationsIn) /\ Len(AnnotationsIn) <= Target)

\* C7: ValuePadder on input no longer than the target returns, for each
\* supplied half, exactly target entries: the input, then the fill value.
C7_ValuePadder ==
    (padcall.padder = "ValuePadder" /\ HalvesWithin(0)) =>
        /\ padcall.status = "ok"
        /\ padcall.frames.present =>
               PaddedWith(padcall.frames_padded, FramesIn,
                          padcall.frames_padding_value)
        /\ padcall.annotations.present =>
               PaddedWith(padcall.annotations_padded, AnnotationsIn,
                          padcall.annotations_padding_value)
        /\ ~padcall.frames.present => padcall.frames_padded = None
        /\ ~padcall.annotations.present => padcall.annotations_padded = None

\* C7 witness: both halves shorter than the target, the last real entries
\* different from the fill values.
C7_Witness ==
    /\ padcall.padder = "ValuePadder"
    /\ padcall.status = "ok"
    /\ padcall.frames.present /\ padcall.annotations.present
    /\ Len(FramesIn) = 2 /\ Len(AnnotationsIn) = 1 /\ Target = 3
    /\ FramesIn[2] # padcall.frames_padding_value
    /\ AnnotationsIn[1] # padcall.annotations_padding_value

\* C8: LastValuePadder on input of length 1..target returns, for each
\* supplied half, exactly target entries: the input, then its last entry.
C8_LastValuePadder ==
    (padcall.padder = "LastValuePadder" /\ HalvesWithin(1)) =>
        /\ padcall.status = "ok"
        /\ padcall.frames.present =>
               PaddedWith(padcall.frames_padded, FramesIn,
                          FramesIn[Len(FramesIn)])
        /\ padcall.annotations.present =>
               PaddedWith(padcall.annotations_padded, AnnotationsIn,
                          AnnotationsIn[Len(AnnotationsIn)])
        /\ ~padcall.frames.present => padcall.frames_padded = None
        /\ ~padcall.annotations.present => padcall.annotations_padded = None

\* C8 witness: both halves shorter than the target, the last entry
\* different from the first.
C8_Witness ==
    /\ padcall.padder = "LastValuePadder"
    /\ padcall.status = "ok"
    /\ padcall.frames.present /\ padcall.annotations.present
    /\ Len(FramesIn) = 2 /\ Len(AnnotationsIn) = 2 /\ Target = 3
    /\ FramesIn[1] # FramesIn[2]
    /\ AnnotationsIn[1] # AnnotationsIn[2]

\* C9: a padder of either variant is a no-op on input at or above the
\* target length: no error, and each supplied half returned unchanged.
C9_PadderNoOp ==
    (/\ padcall.padder # "none"
     /\ padcall.frames.present \/ padcall.annotations.present
     /\ padcall.frames.present => Len(FramesIn) >= Target
     /\ padcall.annotations.present => Len(AnnotationsIn) >= Target) =>
        /\ padcall.status = "ok"
        /\ padcall.frames_padded = padcall.frames
        /\ padcall.annotations_padded = padcall.annotations

\* C10: LastValuePadder with an empty supplied half and a positive target
\* raises; it returns no result.
C10_LastValuePadderRejectsEmpty ==
    (/\ padcall.padder = "LastValuePadder"
     /\ Target > 0
     /\ \/ padcall.frames.present /\ FramesIn = <<>>
        \/ padcall.annotations.present /\ AnnotationsIn = <<>>) =>
        /\ padcall.status \notin {"ok", "none"}
        /\ padcall.frames_padded = None
        /\ padcall.annotations_padded = None

\* --------------------------------------------------------------- construction claims
ParamsChecked == ctor.pc # "params_check"

NoHandles == ctor.video_handles = <<>> /\ ctor.annotation_handles = <<>>

NoDataset == ctor.pc # "done" /\ videos = <<>> /\ call = NoCall

\* The faults C11 names: a missing root directory, a non-positive segment
\* size, an axis permutation that is not 4 distinct components, a transform
\* that is not callable.
ConfigFault(c) ==
    \/ ~c.videos_dir_exists
    \/ ~c.annotations_dir_exists
    \/ c.segment_size.kind = "int" /\ c.segment_size.value <= 0
    \/ Cardinality({c.video_shape.items[i] : i \in 1..Len(c.video_shape.items)}) # 4
    \/ Len(c.video_shape.items) # 4
    \/ c.frames_transform = "not callable"
    \/ c.annotations_transform = "not callable"

\* C11: once the parameter check of a construction has run on arguments with
\* one of the named faults, the construction has failed with a ValueError, no
\* video or annotation handle has been constructed, and no dataset exists.
C11_ConfigurationError ==
    (ParamsChecked /\ ConfigFault(ctor.config))
        => /\ ctor.pc = "failed"
           /\ ctor.status[1] = "ValueError"
           /\ NoHandles
           /\ NoDataset

\* A construction that failed on a repeated axis, with storage to read.
C11_Witness ==
    /\ ctor.pc = "failed"
    /\ ctor.status = ConfigError("Video shape components must be unique.")
    /\ ctor.resources # <<>>
    /\ NoHandles

MissingResource ==
    \E i \in 1..Len(ctor.ids) :
        \/ ~ctor.resources[ctor.ids[i]].video_exists
        \/ ~ctor.resources[ctor.ids[i]].annotation_exists

\* C12: a construction whose arguments are accepted and whose id list names
\* a sample without video or without annotations fails with a not-found
\* error once the handles have been prepared; it never yields a dataset.
C12_MissingResourceFails ==
    (/\ ctor.pc \in {"segment_size_check", "done", "failed"}
     /\ ParamsCheck(ctor.config) = Passed
     /\ ~(ctor.config.video_processor = "VideoFromVideoFramesDirectory"
          /\ ctor.config.video_extension_given)
     /\ MissingResource)
        => /\ ctor.pc = "failed"
           /\ ctor.status \in {UndefinedVideo, UndefinedAnnotations}

\* The values of segment_size that could stand for "the whole video".
SentinelCandidates ==
    {[kind |-> "other", value |-> 0], [kind |-> "int", value |-> -1],
     [kind |-> "int", value |-> 0]}

WholeVideo(v) ==
    /\ call.status = "ok"
    /\ call.video_index = v - 1
    /\ call.start = 0
    /\ call.frames.items = [i \in 1..videos[v] |-> <<v, i - 1>>]
    /\ Len(call.annotations) = annotations[v]

\* C13: with the whole-video sentinel as segment_size (and the other
\* arguments valid) the construction is not rejected, len(dataset) is the
\* number of videos, and dataset[i] is the whole of video i.
C13_WholeVideoMode ==
    (/\ ParamsChecked
     /\ ctor.config.segment_size \in SentinelCandidates
     /\ ParamsCheck([ctor.config EXCEPT !.segment_size = BaseConfig.segment_size])
            = Passed)
        => /\ ctor.status[1] # "ValueError"
           /\ call.op = "len" => call.length = Len(videos)
           /\ (call.op = "getitem" /\ call.arg < Len(videos))
                  => WholeVideo(call.arg + 1)

PositiveStep(st) == st.kind = "None" \/ (st.kind = "int" /\ st.value >= 1)

\* C15: a step that is not a positive integer fails the parameter check with
\* a ValueError, and on a constructed dataset no dataset[g] with
\* 0 <= g < len(dataset) fails.
C15_StepValidated ==
    /\ (ParamsChecked /\ ~PositiveStep(ctor.config.step))
           => (ctor.pc = "failed" /\ ctor.status[1] = "ValueError")
    /\ (call.op = "getitem" /\ call.arg < Length) => call.status = "ok"

\* ------------------------------------------------------- annotation access claims
\* What C14 expects at index i of handle v: the real annotation below the
\* real length, the fallback from there on.
ExpectedAnnotation(v, i) ==
    IF i < annotations[v] THEN <<"line", v, i>> ELSE FALLBACK_ANNOTATION

\* C14: a single access at 0 <= i < n + t yields the real annotation (i < n)
\* or the fallback, and raises IndexError at i >= n + t; a range access
\* [start, stop) yields this for every index when stop <= n + t and raises
\* when it reaches past n + t.
C14_OverflowTolerance ==
    LET v == acc.handle
        limit == annotations[v] + max_overflow_value
    IN  /\ (acc.kind = "index" /\ 0 <= acc.start /\ acc.start < limit)
               => /\ acc.status = "ok"
                  /\ acc.items = <<ExpectedAnnotation(v, acc.start)>>
        /\ (acc.kind = "index" /\ acc.start >= limit)
               => acc.status = IndexOutOfBounds
        /\ (acc.kind = "range" /\ acc.stop <= limit)
               => /\ acc.status = "ok"
                  /\ acc.items = [k \in 1..(acc.stop - acc.start) |->
                                     ExpectedAnnotation(v, acc.start + k - 1)]
        /\ (acc.kind = "range" /\ acc.stop > limit)
               => acc.status = IndexOutOfBounds

\* ------------------------------------------------------------- storage claims
\* len(dataset) as the frame counts taken at construction give it.
ConstructionLength ==
    SumSeq([i \in 1..Len(ctor.video_handles) |->
               FloorDiv(ctor.video_handles[i], segment_size)])

\* C16: whatever happened to the storage since construction, len(dataset)
\* returns the value given by the frame counts taken at construction, and
\* dataset[g] is out of range exactly for g at or past that value.
C16_CountsFixedAtConstruction ==
    /\ call.op = "len" => call.length = ConstructionLength
    /\ call.op = "getitem"
           => (call.status = OutOfRange <=> call.arg >= ConstructionLength)

\* -------------------------------------------------------------- stride claims
\* C17: with an integer step k >= 1, every get(g) with a valid g returns
\* segment_size // k frames and segment_size // k annotations, the j-th of
\* each taken at offset start + (j - 1) * k of the resolved video.
C17_StridedSample ==
    (ValidGet /\ step.kind = "int" /\ step.value >= 1) =>
        LET v == call.video_index + 1
            n == FloorDiv(segment_size, step.value)
        IN  /\ call.status = "ok"
            /\ call.frames.items =
                   [j \in 1..n |-> <<v, call.start + (j - 1) * step.value>>]
            /\ call.annotations =
                   [j \in 1..n |->
                       ExpectedAnnotation(v, call.start + (j - 1) * step.value)]

\* ----------------------------------------------------------- transform claims
FramesTransformSet == ctor.config.frames_transform = "callable"

AnnotationsTransformSet == ctor.config.annotations_transform = "callable"

\* The frames of the window of get(g), reordered, and its annotations.
ReorderedFrames(g) ==
    LET t == Translate(g)
    IN  [fn |-> "identity",
         axes |-> [i \in 1..4 |-> DEFAULT_VIDEO_SHAPE[video_shape[i] + 1]],
         items |-> [j \in 1..segment_size |->
                       <<t.video_index + 1, t.start + j - 1>>]]

SlicedAnnotations(g) ==
    LET t == Translate(g)
    IN  [fn |-> "identity", axes |-> <<>>,
         items |-> [j \in 1..segment_size |->
                       ExpectedAnnotation(t.video_index + 1, t.start + j - 1)]]

\* The events of a complete get, in the order C18 gives, with each transform
\* once when it is configured and not at all otherwise.
ExpectedLog ==
    SelectSeq(<<"slice", "transpose", "frames_transform",
                "annotations_transform">>,
              LAMBDA e : /\ e = "frames_transform" => FramesTransformSet
                         /\ e = "annotations_transform" => AnnotationsTransformSet)

\* C18: a get that returned ran slice, axis reordering, frames transform,
\* annotations transform in this order, each configured transform once; the
\* frames transform was called with the reordered segment_size frames of the
\* window, the annotations transform with the sliced annotations; the pair
\* returned is the transforms' results, or the reordered frames / sliced
\* annotations themselves where no transform is configured.  A get that
\* raised called no transform.
C18_TransformsLast ==
    /\ run.status = "returned" =>
          /\ run.log = ExpectedLog
          /\ FramesTransformSet =>
                /\ run.frames_in = ReorderedFrames(run.arg)
                /\ run.frames = [run.frames_in EXCEPT !.fn = "frames_transform"]
          /\ ~FramesTransformSet =>
                /\ run.frames_in = NoValue
                /\ run.frames = ReorderedFrames(run.arg)
          /\ AnnotationsTransformSet =>
                /\ run.annotations_in = SlicedAnnotations(run.arg)
                /\ run.annotations =
                       [run.annotations_in EXCEPT !.fn = "annotations_transform"]
          /\ ~AnnotationsTransformSet =>
                /\ run.annotations_in = NoValue
                /\ run.annotations = SlicedAnnotations(run.arg)
    /\ run.status \notin {"none", "running", "returned"} =>
          /\ run.frames_in = NoValue
          /\ run.annotations_in = NoValue

\* C18 witness: a get on a dataset with both transforms and a permuted axis
\* order returned, from the second video.
C18_Witness ==
    /\ run.status = "returned"
    /\ FramesTransformSet
    /\ AnnotationsTransformSet
    /\ video_shape # DEFAULT_VIDEO_SHAPE
    /\ Translate(run.arg).video_index = 1
    /\ Len(run.log) = 4

\* ------------------------------------------------------------ bijection claims
\* The complete segments of the dataset, as (0-based video, start) pairs.
AllCompleteSegments ==
    UNION {{<<v - 1, k * segment_size>> : k \in CompleteSegments(videos[v])} :
              v \in 1..Len(videos)}

LexLess(a, b) == a[1] < b[1] \/ (a[1] = b[1] /\ a[2] < b[2])

\* C19: index resolution maps 0..len(dataset)-1 one-to-one onto the complete
\* segments {(v, k * segment_size)}, and a larger index resolves to a
\* lexicographically larger (video, start); a get(g) resolves to the image
\* of g.
C19_ResolutionBijection ==
    LET image == [g \in 1..Length |-> Translate(g - 1)]
        segment(g) == <<image[g].video_index, image[g].start>>
    IN  /\ \A g \in 1..Length : image[g].status = "ok"
        /\ {segment(g) : g \in 1..Length} = AllCompleteSegments
        /\ \A g1, g2 \in 1..Length :
               g1 < g2 => LexLess(segment(g1), segment(g2))
        /\ ValidGet =>
               <<call.video_index, call.start>> = segment(call.arg + 1)

\* C19 witness: the last index of a dataset of two videos with two or more
\* complete segments each was resolved, into the second video.
C19_Witness ==
    /\ ValidGet
    /\ call.status = "ok"
    /\ call.arg = Length - 1
    /\ call.video_index = 1
    /\ call.start > 0
    /\ videos[1] >= 2 * segment_size

\* ------------------------------------------------------- negative index claims
\* C20: a get(g) with g < 0 raises the out-of-range error of the index
\* resolution: no negative start offset is produced and no frames are
\* returned.
C20_NegativeIndexRejected ==
    (call.op = "getitem" /\ call.arg < 0) =>
        /\ call.status = OutOfRange
        /\ call.start >= 0
        /\ call.frames = NoFrames

\* ---------------------------------------------------------------- CSV claims
StartFrame(k) == ToFrame(csv.rows[k].start, csv.fps)

EndFrame(k) == ToFrame(csv.rows[k].end, csv.fps)

\* Rows in ascending time order, each starting at or after the end frame of
\* the row before it.
RowsAscending ==
    /\ csv.rows # <<>>
    /\ \A k \in 2..Len(csv.rows) : StartFrame(k) >= EndFrame(k - 1)

LargestEndFrame ==
    CHOOSE e \in {EndFrame(k) : k \in 1..Len(csv.rows)} :
        \A k \in 1..Len(csv.rows) : EndFrame(k) <= e

CoveredBy(k, i) == StartFrame(k) <= i /\ i <= EndFrame(k)

\* The entry of the loaded list at frame index i, if it has one.
EntryIs(i, value) ==
    /\ i < Len(csv.annotations)
    /\ csv.annotations[i + 1] = value

\* C21: for ascending rows that may touch, the list loaded from the file has
\* (largest end frame) + 1 entries, len(handle) returns that, every frame of
\* a row that no earlier row covers holds the row's action, and every frame
\* below the length covered by no row holds the fallback.
C21_CsvExpansion ==
    (csv.loaded /\ RowsAscending) =>
        /\ Len(csv.annotations) = LargestEndFrame + 1
        /\ csv.op = "len" => csv.length = LargestEndFrame + 1
        /\ \A k \in 1..Len(csv.rows) :
               \A i \in StartFrame(k)..EndFrame(k) :
                   (\A j \in 1..(k - 1) : ~CoveredBy(j, i))
                       => EntryIs(i, csv.rows[k].action)
        /\ \A i \in 0..(Len(csv.annotations) - 1) :
               (\A k \in 1..Len(csv.rows) : ~CoveredBy(k, i))
                   => EntryIs(i, FALLBACK_ANNOTATION)

=============================================================================
